---- MODULE Spec2Model ----
(***************************************************************************)
(* Model of url2pdf.js: a cluster master that hands the rows of a          *)
(* spreadsheet (urls) to forked workers, one 'start' message per job,      *)
(* arms a TASK_TIMEOUT timer per dispatched job, respawns workers that     *)
(* exit while work remains, and kills all workers when                     *)
(* totalProcessedTasks reaches urls.length.                                *)
(*                                                                         *)
(* Time is abstracted: every setTimeout uses the same delay, so timers     *)
(* fire in the order they were armed, at an arbitrary moment.  A worker    *)
(* never waits for the master, so a message is modelled at the moment the  *)
(* master's event loop takes it (a delayed delivery is a delayed send).    *)
(* The 'status' messages carry no job index and are left out; startTimes   *)
(* and duration are display-only.                                          *)
(***************************************************************************)
EXTENDS Integers, Sequences, FiniteSets, TLC

\* ---- bounds of the model ----
MaxJobs == 3        \* urls.length ranges over 0..MaxJobs
MaxRespawns == 1    \* a worker exits on its own only while nextWorkerId <= numCPUs + MaxRespawns

\* const numCPUs = os.cpus().length (line 9): the modelled host has two CPUs
numCPUs == 2

VARIABLES
    urls,                 \* the payloads read from the sheet (line 27-33)
    taskStatus,           \* index -> [id, status, progress]
    workerStatus,         \* worker id -> text
    pdfInfo,              \* index -> artifact (never written by the master)
    completedTasks,
    timedOutTasks,
    totalProcessedTasks,
    taskQueue,            \* sequence of job indices still to dispatch
    inProgress,           \* set of job indices
    consoleUpdateInterval,\* TRUE while the refresh interval is armed
    workers,              \* cluster.workers: id -> [state, killed]
    nextWorkerId,         \* id the next cluster.fork() gets
    timers,               \* armed TASK_TIMEOUT timers, in arming order
    inbox,                \* master -> worker channel: id -> sequence of 'start' indices
    running,              \* worker side: id -> (job index -> position in processUrl)
    masterAlive,          \* FALSE once an exception escaped a master callback
    startLog,             \* history: every 'start' message sent, in order
    shutdownCount,        \* history: how often the body of checkCompletion's if ran
    delivered,            \* history: jobs whose 'completed' reached the master while In Progress
    late,                 \* history: jobs whose 'completed' reached the master after they timed out
    startupForks          \* history: how many workers the loop of lines 119-125 forked

mvars == <<taskStatus, workerStatus, completedTasks, timedOutTasks, totalProcessedTasks,
           taskQueue, inProgress, consoleUpdateInterval, workers, nextWorkerId, timers,
           inbox, masterAlive, startLog, shutdownCount>>
vars == <<urls, pdfInfo, mvars, running, delivered, late, startupForks>>

Jobs == 0 .. (Len(urls) - 1)

\* f without key k
Drop(f, k) == [x \in (DOMAIN f) \ {k} |-> f[x]]

\* The master's mutable state as one record, so that a handler is the
\* composition of the functions it calls.
Cur ==
    [taskStatus |-> taskStatus, workerStatus |-> workerStatus,
     completedTasks |-> completedTasks, timedOutTasks |-> timedOutTasks,
     totalProcessedTasks |-> totalProcessedTasks, taskQueue |-> taskQueue,
     inProgress |-> inProgress, consoleUpdateInterval |-> consoleUpdateInterval,
     workers |-> workers, nextWorkerId |-> nextWorkerId, timers |-> timers,
     inbox |-> inbox, masterAlive |-> masterAlive, startLog |-> startLog,
     shutdownCount |-> shutdownCount]

\* the handler's result r becomes the master's next state (r is bound once,
\* so the handler is evaluated once)
Commit(s) ==
    \E r \in {s} :
        /\ taskStatus' = r.taskStatus
        /\ workerStatus' = r.workerStatus
        /\ completedTasks' = r.completedTasks
        /\ timedOutTasks' = r.timedOutTasks
        /\ totalProcessedTasks' = r.totalProcessedTasks
        /\ taskQueue' = r.taskQueue
        /\ inProgress' = r.inProgress
        /\ consoleUpdateInterval' = r.consoleUpdateInterval
        /\ workers' = r.workers
        /\ nextWorkerId' = r.nextWorkerId
        /\ timers' = r.timers
        /\ inbox' = r.inbox
        /\ masterAlive' = r.masterAlive
        /\ startLog' = r.startLog
        /\ shutdownCount' = r.shutdownCount

\* F applied to the value of v: sequential composition, v evaluated once
Then(v, F(_)) == CHOOSE x \in {F(r) : r \in {v}} : TRUE

\* cluster.fork(): a new worker process with the next id, not yet online
fork(s) ==
    [s EXCEPT !.workers = s.workers @@ (s.nextWorkerId :> [state |-> "forked", killed |-> FALSE]),
              !.inbox = s.inbox @@ (s.nextWorkerId :> <<>>),
              !.nextWorkerId = s.nextWorkerId + 1]

\* assignTask reading the head of the queue without removing it
assignTaskPeek(s, workerId) ==
    IF Len(s.taskQueue) > 0
    THEN LET task == Head(s.taskQueue)
             s1 == [s EXCEPT !.inProgress = s.inProgress \cup {task},
                             !.taskStatus[task].status = "In Progress",
                             !.taskStatus[task].progress = 10]
         IN IF workerId \in DOMAIN s.workers
            THEN [s1 EXCEPT !.inbox[workerId] = Append(s.inbox[workerId], task),
                            !.startLog = Append(s.startLog, [worker |-> workerId, index |-> task]),
                            !.timers = Append(s.timers, [task |-> task, workerId |-> workerId])]
            ELSE [s1 EXCEPT !.masterAlive = FALSE]
    ELSE s

\* assignTask with while (taskQueue.length > 0) in place of the if
RECURSIVE assignTaskDrain(_, _)
assignTaskDrain(s, workerId) ==
    IF Len(s.taskQueue) > 0
    THEN LET task == Head(s.taskQueue)
             s1 == [s EXCEPT !.taskQueue = Tail(s.taskQueue),
                             !.inProgress = s.inProgress \cup {task},
                             !.taskStatus[task].status = "In Progress",
                             !.taskStatus[task].progress = 10]
         IN IF workerId \in DOMAIN s.workers
            THEN assignTaskDrain(
                   [s1 EXCEPT !.inbox[workerId] = Append(s.inbox[workerId], task),
                              !.startLog = Append(s.startLog, [worker |-> workerId, index |-> task]),
                              !.timers = Append(s.timers, [task |-> task, workerId |-> workerId])],
                   workerId)
            ELSE [s1 EXCEPT !.masterAlive = FALSE]
    ELSE s

\* assignTask taking the last element of the queue (pop) instead of the first
assignTaskPop(s, workerId) ==
    IF Len(s.taskQueue) > 0
    THEN LET task == s.taskQueue[Len(s.taskQueue)]
             s1 == [s EXCEPT !.taskQueue = SubSeq(s.taskQueue, 1, Len(s.taskQueue) - 1),
                             !.inProgress = s.inProgress \cup {task},
                             !.taskStatus[task].status = "In Progress",
                             !.taskStatus[task].progress = 10]
         IN IF workerId \in DOMAIN s.workers
            THEN [s1 EXCEPT !.inbox[workerId] = Append(s.inbox[workerId], task),
                            !.startLog = Append(s.startLog, [worker |-> workerId, index |-> task]),
                            !.timers = Append(s.timers, [task |-> task, workerId |-> workerId])]
            ELSE [s1 EXCEPT !.masterAlive = FALSE]
    ELSE s

\* function assignTask(workerId), lines 56-79.  cluster.workers[workerId] is
\* undefined for a worker that has exited, so line 63 throws after lines
\* 58-62 ran and before the timer is armed.
assignTask(s, workerId) ==
    IF Len(s.taskQueue) > 0
    THEN LET task == Head(s.taskQueue)
             s1 == [s EXCEPT !.taskQueue = Tail(s.taskQueue),
                             !.inProgress = s.inProgress \cup {task},
                             !.taskStatus[task].status = "In Progress",
                             !.taskStatus[task].progress = 10]
         IN IF workerId \in DOMAIN s.workers
            THEN [s1 EXCEPT !.inbox[workerId] = Append(s.inbox[workerId], task),
                            !.startLog = Append(s.startLog, [worker |-> workerId, index |-> task]),
                            !.timers = Append(s.timers, [task |-> task, workerId |-> workerId])]
            ELSE [s1 EXCEPT !.masterAlive = FALSE]
    ELSE s

\* checkCompletion testing that everything was dispatched instead of processed
allDispatched(s) == Len(s.taskQueue) = 0

\* the condition of checkCompletion, line 103
allProcessed(s) == s.totalProcessedTasks = Len(urls)

\* function checkCompletion(), lines 102-116
checkCompletion(s) ==
    IF allProcessed(s)
    THEN [s EXCEPT !.consoleUpdateInterval = FALSE,
                   !.shutdownCount = s.shutdownCount + 1,
                   !.workers = [id \in DOMAIN s.workers |-> [s.workers[id] EXCEPT !.killed = TRUE]]]
    ELSE s

\* the timeout callback putting the timed-out task back on the queue
timeoutCallbackRetry(s, task, workerId) ==
    IF task \in s.inProgress
    THEN LET s1 == [s EXCEPT !.inProgress = s.inProgress \ {task},
                             !.taskStatus[task].status = "Timed Out",
                             !.taskStatus[task].progress = 0,
                             !.timedOutTasks = s.timedOutTasks + 1,
                             !.totalProcessedTasks = s.totalProcessedTasks + 1,
                             !.taskQueue = Append(s.taskQueue, task)]
         IN assignTask(checkCompletion(s1), workerId)
    ELSE s

\* the timeout callback without totalProcessedTasks++
timeoutCallbackNoTotal(s, task, workerId) ==
    IF task \in s.inProgress
    THEN LET s1 == [s EXCEPT !.inProgress = s.inProgress \ {task},
                             !.taskStatus[task].status = "Timed Out",
                             !.taskStatus[task].progress = 0,
                             !.timedOutTasks = s.timedOutTasks + 1]
         IN assignTask(checkCompletion(s1), workerId)
    ELSE s

\* the timeout callback checking for completion again after assignTask
timeoutCallbackCheckTwice(s, task, workerId) ==
    IF task \in s.inProgress
    THEN LET s1 == [s EXCEPT !.inProgress = s.inProgress \ {task},
                             !.taskStatus[task].status = "Timed Out",
                             !.taskStatus[task].progress = 0,
                             !.timedOutTasks = s.timedOutTasks + 1,
                             !.totalProcessedTasks = s.totalProcessedTasks + 1]
         IN checkCompletion(assignTask(checkCompletion(s1), workerId))
    ELSE s

\* the timeout callback handing the task back as Pending instead of timing it out
timeoutCallbackRequeue(s, task, workerId) ==
    IF task \in s.inProgress
    THEN LET s1 == [s EXCEPT !.inProgress = s.inProgress \ {task},
                             !.taskStatus[task].status = "Pending",
                             !.taskStatus[task].progress = 0,
                             !.taskQueue = Append(s.taskQueue, task)]
         IN assignTask(checkCompletion(s1), workerId)
    ELSE s

\* the timeout callback with assignTask(workerId) written twice
timeoutCallbackAssignTwice(s, task, workerId) ==
    IF task \in s.inProgress
    THEN LET s1 == [s EXCEPT !.inProgress = s.inProgress \ {task},
                             !.taskStatus[task].status = "Timed Out",
                             !.taskStatus[task].progress = 0,
                             !.timedOutTasks = s.timedOutTasks + 1,
                             !.totalProcessedTasks = s.totalProcessedTasks + 1]
             s2 == assignTask(checkCompletion(s1), workerId)
         IN IF s2.masterAlive THEN assignTask(s2, workerId) ELSE s2
    ELSE s

\* the setTimeout callback of assignTask, lines 66-77
timeoutCallback(s, task, workerId) ==
    IF task \in s.inProgress
    THEN LET s1 == [s EXCEPT !.inProgress = s.inProgress \ {task},
                             !.taskStatus[task].status = "Timed Out",
                             !.taskStatus[task].progress = 0,
                             !.timedOutTasks = s.timedOutTasks + 1,
                             !.totalProcessedTasks = s.totalProcessedTasks + 1]
         IN Then(checkCompletion(s1), LAMBDA s2 : assignTask(s2, workerId))
    ELSE s

\* the exit listener forking a replacement whatever work remains
exitHandlerAlways(s, workerId) ==
    LET s1 == [s EXCEPT !.workerStatus = Drop(s.workerStatus, workerId)]
        s2 == fork(s1)
    IN [s2 EXCEPT !.workerStatus = s2.workerStatus @@ (s1.nextWorkerId :> "Idle")]

\* the exit listener without delete workerStatus[worker.id]
exitHandlerNoDelete(s, workerId) ==
    IF Len(s.taskQueue) > 0 \/ Cardinality(s.inProgress) > 0
    THEN LET s2 == fork(s)
         IN [s2 EXCEPT !.workerStatus = s2.workerStatus @@ (s.nextWorkerId :> "Idle")]
    ELSE s

\* the cluster.on('exit') listener, lines 128-139, run on the master state in
\* which the worker has already left cluster.workers
exitHandler(s, workerId) ==
    LET s1 == [s EXCEPT !.workerStatus = Drop(s.workerStatus, workerId)]
    IN IF Len(s1.taskQueue) > 0 \/ Cardinality(s1.inProgress) > 0
       THEN LET s2 == fork(s1)
            IN [s2 EXCEPT !.workerStatus = s2.workerStatus @@ (s1.nextWorkerId :> "Idle")]
       ELSE s1

\* the startup loop forking no more workers than there are queued jobs
RECURSIVE initialForksCapped(_, _)
initialForksCapped(s, i) ==
    IF i = 0 THEN s
    ELSE LET s1 == initialForksCapped(s, i - 1)
             s2 == fork(s1)
         IN IF s1.nextWorkerId > Len(s1.taskQueue) THEN s1
            ELSE [s2 EXCEPT !.workerStatus = s2.workerStatus @@ (s1.nextWorkerId :> "Idle")]

\* the loop of lines 119-125 applied i times
RECURSIVE initialForks(_, _)
initialForks(s, i) ==
    IF i = 0 THEN s
    ELSE LET s1 == initialForks(s, i - 1)
             s2 == fork(s1)
         IN [s2 EXCEPT !.workerStatus = s2.workerStatus @@ (s1.nextWorkerId :> "Idle")]

\* The state after the master ran the top-level script, lines 35-139.
Init ==
    /\ \E n \in 0 .. MaxJobs : urls = [i \in 1 .. n |-> i]
    /\ pdfInfo = <<>>
    /\ delivered = {}
    /\ late = {}
    /\ LET s0 == [taskStatus |-> [i \in Jobs |-> [id |-> i + 1, status |-> "Pending", progress |-> 0]],
                  workerStatus |-> <<>>,
                  completedTasks |-> 0, timedOutTasks |-> 0, totalProcessedTasks |-> 0,
                  taskQueue |-> [k \in 1 .. Len(urls) |-> k - 1],
                  inProgress |-> {},
                  consoleUpdateInterval |-> TRUE,
                  workers |-> <<>>, nextWorkerId |-> 1, timers |-> <<>>,
                  inbox |-> <<>>, masterAlive |-> TRUE, startLog |-> <<>>,
                  shutdownCount |-> 0]
           s == initialForks(s0, numCPUs)
       IN /\ taskStatus = s.taskStatus
          /\ workerStatus = s.workerStatus
          /\ completedTasks = s.completedTasks
          /\ timedOutTasks = s.timedOutTasks
          /\ totalProcessedTasks = s.totalProcessedTasks
          /\ taskQueue = s.taskQueue
          /\ inProgress = s.inProgress
          /\ consoleUpdateInterval = s.consoleUpdateInterval
          /\ workers = s.workers
          /\ nextWorkerId = s.nextWorkerId
          /\ timers = s.timers
          /\ inbox = s.inbox
          /\ masterAlive = s.masterAlive
          /\ startLog = s.startLog
          /\ shutdownCount = s.shutdownCount
          /\ startupForks = s.nextWorkerId - 1
    /\ running = [id \in DOMAIN workers |-> <<>>]

\* ---- master events ----

\* worker.on('online', ...), lines 122-124 and 135-137
Online(w) ==
    /\ masterAlive
    /\ w \in DOMAIN workers
    /\ workers[w].state = "forked"
    /\ Commit(assignTask([Cur EXCEPT !.workers[w].state = "online"], w))
    /\ UNCHANGED <<urls, pdfInfo, running, delivered, late, startupForks>>

\* the oldest armed timer fires, lines 66-77
Timeout ==
    /\ masterAlive
    /\ Len(timers) > 0
    /\ LET t == Head(timers)
       IN Commit(timeoutCallback([Cur EXCEPT !.timers = Tail(timers)], t.task, t.workerId))
    /\ UNCHANGED <<urls, pdfInfo, running, delivered, late, startupForks>>

\* A worker process terminates (killed by the master, or on its own: a
\* rejected await in processUrl, an external signal) and the master runs
\* its 'exit' listener.
Exit(w) ==
    /\ masterAlive
    /\ w \in DOMAIN workers
    /\ workers[w].killed \/ nextWorkerId <= numCPUs + MaxRespawns
    /\ Commit(exitHandler([Cur EXCEPT !.workers = Drop(workers, w),
                                      !.inbox = Drop(inbox, w)], w))
    /\ running' = [id \in DOMAIN workers' |-> IF id \in DOMAIN running /\ id # w THEN running[id] ELSE <<>>]
    /\ UNCHANGED <<urls, pdfInfo, delivered, late, startupForks>>

\* ---- worker side ----

\* the artifact name of processUrl, lines 166-170, without the date part
fileName(index) == index + 1

\* what processUrl sends when it leaves position pc (lines 144-182)
Milestone(index, pc) ==
    CASE pc = 0 -> [type |-> "progress", index |-> index, progress |-> 10, fileName |-> 0]
      [] pc = 1 -> [type |-> "progress", index |-> index, progress |-> 30, fileName |-> 0]
      [] pc = 2 -> [type |-> "progress", index |-> index, progress |-> 50, fileName |-> 0]
      [] pc = 3 -> [type |-> "progress", index |-> index, progress |-> 70, fileName |-> 0]
      [] pc = 4 -> [type |-> "progress", index |-> index, progress |-> 90, fileName |-> 0]
      [] pc = 5 -> [type |-> "completed", index |-> index, progress |-> 0, fileName |-> fileName(index)]

\* A message m of a worker reaches the master.  The master registers no
\* 'message' listener anywhere in lines 35-139, so none of its state changes;
\* only the history variables record the arrival.
onMessage(m) ==
    /\ delivered' = IF m.type = "completed" /\ taskStatus[m.index].status = "In Progress"
                    THEN delivered \cup {m.index} ELSE delivered
    /\ late' = IF m.type = "completed" /\ taskStatus[m.index].status = "Timed Out"
               THEN late \cup {m.index} ELSE late
    /\ UNCHANGED <<pdfInfo, taskStatus, workerStatus, completedTasks, timedOutTasks,
                   totalProcessedTasks, taskQueue, inProgress, consoleUpdateInterval, workers,
                   nextWorkerId, timers, masterAlive, startLog, shutdownCount>>

\* process.on('message'), lines 185-189: a 'start' message begins processUrl,
\* which sends progress 10 (line 144) before its first await
Start(w) ==
    /\ masterAlive
    /\ w \in DOMAIN workers
    /\ workers[w].state = "online"
    /\ Len(inbox[w]) > 0
    /\ LET index == Head(inbox[w])
       IN /\ running' = [running EXCEPT ![w] = running[w] @@ (index :> 1)]
          /\ onMessage(Milestone(index, 0))
    /\ inbox' = [inbox EXCEPT ![w] = Tail(inbox[w])]
    /\ UNCHANGED <<urls, startupForks>>

\* processUrl resumes after an await and sends its next message, lines 146-182
Step(w) ==
    /\ masterAlive
    /\ w \in DOMAIN workers
    /\ \E index \in DOMAIN running[w] :
        /\ running[w][index] < 6
        /\ running' = [running EXCEPT ![w][index] = running[w][index] + 1]
        /\ onMessage(Milestone(index, running[w][index]))
    /\ UNCHANGED <<urls, inbox, startupForks>>

WorkerIds == 1 .. (numCPUs + MaxRespawns)

Next ==
    \/ \E w \in WorkerIds : Online(w)
    \/ Timeout
    \/ \E w \in WorkerIds : Exit(w)
    \/ \E w \in WorkerIds : Start(w)
    \/ \E w \in WorkerIds : Step(w)

Spec == Init /\ [][Next]_vars

\* the exit of a worker the master has killed (line 113)
KilledExit(w) ==
    /\ w \in DOMAIN workers
    /\ workers[w].killed
    /\ Exit(w)

\* The scheduling the run-time guarantees: an armed timer fires, a forked
\* worker comes online, a killed worker exits.  Nothing forces processUrl
\* to make progress or a worker to stay alive.
FairSpec ==
    /\ Spec
    /\ WF_vars(Timeout)
    /\ \A w \in WorkerIds : WF_vars(Online(w))
    /\ \A w \in WorkerIds : WF_vars(KilledExit(w))

\* The one guarantee the shutdown needs: while a killed worker is left, a
\* killed worker exits.
ShutdownFairSpec == Spec /\ WF_vars(\E w \in WorkerIds : KilledExit(w))

Terminal == {"Completed", "Timed Out"}

\* the last 'start' message the master sent
LastStart(log) == log[Len(log)]

\* the jobs a worker holds: received but not begun, or begun
Held(w) == {inbox[w][k] : k \in 1 .. Len(inbox[w])} \cup DOMAIN running[w]

\* ---- C1 ----
\* C1: whenever the shutdown sequence of checkCompletion has run,
\* completedTasks + timedOutTasks = urls.length, the task queue and the
\* inProgress set are empty and no job is Pending or In Progress.
C1_ShutdownMeansAllTerminal ==
    shutdownCount > 0 =>
        /\ completedTasks + timedOutTasks = Len(urls)
        /\ Len(taskQueue) = 0
        /\ inProgress = {}
        /\ \A i \in Jobs : taskStatus[i].status \in Terminal

C1_Witness == shutdownCount > 0 /\ Len(urls) >= 2 /\ timedOutTasks = Len(urls)

\* ---- C2 ----
\* C2: a job whose Completed(artifact X) reached the master while it was In
\* Progress (before its timer fired) is Completed, has progress >= 90, has
\* artifact X recorded and is counted in completedTasks.
C2_CompletedInTimeIsRecorded ==
    \A j \in delivered :
        /\ taskStatus[j].status = "Completed"
        /\ taskStatus[j].progress >= 90
        /\ j \in DOMAIN pdfInfo
        /\ pdfInfo[j] = fileName(j)
        /\ completedTasks >= Cardinality(delivered)

\* ---- C3 ----
\* C3: a job that is Completed or Timed Out keeps its status (and progress)
\* in every later step: timer firing, late progress or completion, worker exit.
C3_TerminalIsFinal ==
    [][\A i \in Jobs : taskStatus[i].status \in Terminal => taskStatus'[i] = taskStatus[i]]_vars

C3_Witness == \E i \in late : taskStatus[i].status = "Timed Out"

\* ---- C4 ----
\* C4: totalProcessedTasks = completedTasks + timedOutTasks = the number of
\* jobs in a terminal status <= urls.length in every state, and the arrival of
\* a late Completed for a Timed Out job changes neither a status nor a counter.
C4_Counted ==
    /\ totalProcessedTasks = completedTasks + timedOutTasks
    /\ totalProcessedTasks = Cardinality({i \in Jobs : taskStatus[i].status \in Terminal})
    /\ totalProcessedTasks <= Len(urls)

C4_CountedOnce ==
    /\ []C4_Counted
    /\ [][late' # late =>
            UNCHANGED <<taskStatus, completedTasks, timedOutTasks, totalProcessedTasks>>]_vars

C4_Witness == late # {} /\ totalProcessedTasks = Len(urls) /\ Len(urls) >= 2

\* ---- C5 ----
\* C5: when the timer of an In Progress job fires, the job becomes Timed Out
\* with progress 0 and, if the queue is non-empty, in the same step the head
\* of the queue becomes In Progress and is sent to the worker of the timer.
C5_TimeoutReassignsSlot ==
    [][(Len(timers) > 0 /\ Head(timers).task \in inProgress
            /\ Head(timers).task \notin inProgress') =>
        LET t == Head(timers)
        IN /\ taskStatus'[t.task].status = "Timed Out"
           /\ taskStatus'[t.task].progress = 0
           /\ Len(taskQueue) > 0 =>
                /\ taskStatus'[Head(taskQueue)].status = "In Progress"
                /\ Len(startLog') = Len(startLog) + 1
                /\ LastStart(startLog') = [worker |-> t.workerId, index |-> Head(taskQueue)]]_vars

\* ---- C6 ----
\* C6: when Completed(j) of worker w reaches the master while j is In
\* Progress, j becomes Completed and, if the queue is non-empty, its head
\* becomes In Progress and is sent to w in the same step.
C6_CompletionReassignsSlot ==
    [][\A j \in delivered' \ delivered :
        /\ taskStatus'[j].status = "Completed"
        /\ j \notin inProgress'
        /\ Len(taskQueue) > 0 =>
            /\ Head(taskQueue) \in inProgress'
            /\ Len(startLog') = Len(startLog) + 1
            /\ \E w \in DOMAIN running :
                /\ j \in DOMAIN running[w]
                /\ LastStart(startLog') = [worker |-> w, index |-> Head(taskQueue)]]_vars

\* ---- C7 ----
\* C7: a step in which a worker exits forks exactly one worker (left in the
\* state that waits for 'online') if the queue is non-empty or a job is In
\* Progress, and forks none otherwise.
C7_ExitRespawn ==
    [][(DOMAIN workers) \ (DOMAIN workers') # {} =>
        IF Len(taskQueue) > 0 \/ inProgress # {}
        THEN /\ nextWorkerId' = nextWorkerId + 1
             /\ (DOMAIN workers') \ (DOMAIN workers) = {nextWorkerId}
             /\ workers'[nextWorkerId].state = "forked"
        ELSE /\ nextWorkerId' = nextWorkerId
             /\ (DOMAIN workers') \ (DOMAIN workers) = {}]_vars

C7_Witness == nextWorkerId > numCPUs + 1 /\ shutdownCount = 1 /\ DOMAIN workers = {}

\* ---- C8 ----
\* C8: the shutdown sequence of checkCompletion runs at most once.
C8_ShutdownAtMostOnce == shutdownCount <= 1

C8_Witness ==
    /\ shutdownCount = 1
    /\ Len(urls) >= 2
    /\ ~consoleUpdateInterval
    /\ Cardinality(DOMAIN workers) < numCPUs

\* ---- C9 ----
\* C9: the number of live workers, in cluster.workers and in workerStatus,
\* never exceeds numCPUs.
C9_PoolBounded ==
    /\ Cardinality(DOMAIN workers) <= numCPUs
    /\ Cardinality(DOMAIN workerStatus) <= numCPUs

C9_Witness ==
    /\ nextWorkerId > numCPUs + 1
    /\ Cardinality(DOMAIN workers) = numCPUs
    /\ Cardinality(DOMAIN workerStatus) = numCPUs

\* ---- C10 ----
\* C10: no job index occurs in two 'start' messages, and no two workers hold
\* the same job at the same time.
C10_DispatchedOnce ==
    /\ \A a, b \in 1 .. Len(startLog) : a # b => startLog[a].index # startLog[b].index
    /\ \A v, w \in DOMAIN workers : v # w => Held(v) \cap Held(w) = {}

C10_Witness ==
    /\ Len(urls) > numCPUs
    /\ Len(startLog) = Len(urls)
    /\ \E a, b \in 1 .. Len(startLog) : a # b /\ startLog[a].worker = startLog[b].worker

\* the jobs of worker w that processUrl has not finished: 'start' received
\* or still in the channel, 'completed' not yet sent
Executing(w) ==
    {inbox[w][k] : k \in 1 .. Len(inbox[w])}
        \cup {j \in DOMAIN running[w] : running[w][j] < 6}

\* ---- C11 ----
\* C11 (as claimed): no worker is delivered a second 'start' while a job it
\* was sent earlier is still executing: a worker never has two unfinished jobs.
C11_NoStartWhileExecuting ==
    \A w \in DOMAIN workers : Cardinality(Executing(w)) <= 1

\* C11 (amended): send never refuses; a worker is sent a further 'start' only
\* from the timeout callback of its previous job, so of the jobs a worker
\* holds at most one is In Progress and all others are Timed Out, although
\* they may still be executing.
C11_StartOnlyAfterTimeout ==
    \A w \in DOMAIN workers :
        /\ Cardinality(Held(w) \cap inProgress) <= 1
        /\ \A j \in Held(w) \ inProgress : taskStatus[j].status = "Timed Out"

C11_Witness ==
    \E w \in DOMAIN workers : \E j, k \in Executing(w) :
        /\ j \in DOMAIN running[w]
        /\ taskStatus[j].status = "Timed Out"
        /\ taskStatus[k].status = "In Progress"

\* ---- C12 ----
\* C12: every change of a job's status is Pending -> In Progress or
\* In Progress -> Completed / Timed Out; no job skips In Progress and none
\* returns to Pending, also when its worker exited while it was In Progress.
C12_ForwardOnly ==
    [][\A i \in Jobs :
        taskStatus'[i].status # taskStatus[i].status =>
            \/ taskStatus[i].status = "Pending" /\ taskStatus'[i].status = "In Progress"
            \/ taskStatus[i].status = "In Progress" /\ taskStatus'[i].status \in Terminal]_vars

\* a job timed out after the worker it was sent to had exited
C12_Witness ==
    \E k \in 1 .. Len(startLog) :
        /\ startLog[k].worker \notin DOMAIN workers
        /\ taskStatus[startLog[k].index].status = "Timed Out"
        /\ shutdownCount = 0

\* ---- C13 ----
\* C13: jobs leave the queue in input order: the queue is always the
\* increasing run of the not yet dispatched indices, so that for i < j job j
\* has left Pending only if job i has.
C13_Fifo ==
    /\ \A i, j \in Jobs : i < j /\ taskStatus[j].status # "Pending" => taskStatus[i].status # "Pending"
    /\ \A k \in 1 .. Len(taskQueue) : taskQueue[k] = Len(urls) - Len(taskQueue) + k - 1
    /\ \A a, b \in 1 .. Len(startLog) : a < b => startLog[a].index < startLog[b].index

C13_Witness ==
    /\ Len(urls) > numCPUs
    /\ nextWorkerId > numCPUs + 1
    /\ Len(taskQueue) = 0
    /\ Len(startLog) = Len(urls)
    /\ startLog[Len(startLog)].worker > numCPUs

Min(a, b) == IF a < b THEN a ELSE b

\* ---- C14 ----
\* C14: every job that is In Progress has an armed TASK_TIMEOUT timer keyed
\* by its index, also when the send of the same assignTask call failed.
C14_InProgressHasTimer ==
    \A j \in Jobs :
        taskStatus[j].status = "In Progress" =>
            \E k \in 1 .. Len(timers) : timers[k].task = j

\* ---- C15 ----
\* C15 (as claimed): the startup loop forks min(numCPUs, urls.length) workers.
C15_StartupForksMin == startupForks = Min(numCPUs, Len(urls))

\* C15 (amended): the startup loop forks exactly numCPUs workers whatever
\* the number of jobs; until one exits they are the workers 1..numCPUs.
C15_StartupForksAll ==
    /\ startupForks = numCPUs
    /\ nextWorkerId >= numCPUs + 1
    /\ nextWorkerId = numCPUs + 1 => DOMAIN workers \subseteq 1 .. numCPUs

\* more workers than jobs, all online, the surplus with nothing to do
C15_Witness ==
    /\ Len(urls) < numCPUs
    /\ DOMAIN workers = 1 .. numCPUs
    /\ \A w \in DOMAIN workers : workers[w].state = "online"
    /\ Len(startLog) = Len(urls)

\* ---- C16 ----
\* C16: once the shutdown sequence has run every remaining worker is killed,
\* no worker is forked any more, the shutdown is never undone, and from some
\* point on the set of live workers is empty whenever the shutdown has run.
C16_ShutdownEmptiesPool ==
    /\ [](shutdownCount > 0 => \A w \in DOMAIN workers : workers[w].killed)
    /\ [][shutdownCount > 0 => nextWorkerId' = nextWorkerId /\ shutdownCount' > 0]_vars
    /\ <>[](shutdownCount > 0 => DOMAIN workers = {})

\* a worker was killed while a job it was sent was still executing
C16_Witness ==
    /\ shutdownCount > 0
    /\ nextWorkerId = numCPUs + 1
    /\ \E w \in DOMAIN workers : workers[w].killed /\ Executing(w) # {}

\* ---- C17 ----
\* C17: for a batch of at least one job, if armed timers fire and forked
\* workers come online, eventually every job is Completed or Timed Out and
\* the shutdown sequence has run.
C17_BatchTerminates ==
    [](Len(urls) >= 1 =>
        <>(shutdownCount > 0 /\ \A i \in Jobs : taskStatus[i].status \in Terminal))

\* ---- C18 ----
\* C18: a job leaves the queue only in a step that sends it in a 'start'
\* message to a worker of cluster.workers; no exception escapes assignTask.
C18_AssignOnlyToLiveWorker ==
    [][Len(taskQueue') < Len(taskQueue) =>
        /\ masterAlive'
        /\ Len(startLog') = Len(startLog) + 1
        /\ LastStart(startLog').index = Head(taskQueue)
        /\ LastStart(startLog').worker \in DOMAIN workers']_vars

\* ---- C19 ----
\* C19 (as claimed): the number of In Progress jobs is at most the number of
\* live workers and at most numCPUs.
C19_InProgressWithinPool ==
    /\ Cardinality(inProgress) <= Cardinality(DOMAIN workers)
    /\ Cardinality(inProgress) <= numCPUs

\* C19 (amended): the In Progress jobs held by live workers number at most
\* the live workers, hence at most numCPUs; the jobs of exited workers stay
\* In Progress until their timers fire, so the size of inProgress is bounded
\* only by the number of workers forked so far.
C19_InProgressPerWorker ==
    /\ Cardinality(inProgress \cap UNION {Held(w) : w \in DOMAIN workers})
            <= Cardinality(DOMAIN workers)
    /\ Cardinality(DOMAIN workers) <= numCPUs
    /\ Cardinality(inProgress) <= nextWorkerId - 1

C19_Witness ==
    /\ masterAlive
    /\ Cardinality(inProgress) > numCPUs
    /\ Cardinality(DOMAIN workers) = numCPUs

\* ---- C20 ----
\* C20: for an empty batch the shutdown sequence eventually runs.
C20_EmptyBatchTerminates ==
    [](Len(urls) = 0 => <>(shutdownCount > 0))

TypeOK ==
    /\ totalProcessedTasks \in 0 .. Len(urls)
    /\ inProgress \subseteq Jobs
    /\ DOMAIN workers = DOMAIN inbox
    /\ DOMAIN workers = DOMAIN running
====
